---- MODULE Spec2Model ----
(***************************************************************************)
(* The LLM-analysis pipeline of market_analyzer.py (ExchangeRateAnalyzer): *)
(* analyze_market_trend, the retrying client _get_deepseek_analysis, the   *)
(* fallback builders and the tag extractor _create_tags_from_content.      *)
(*                                                                         *)
(* Strings.  A Python str is modelled as a sequence of units.  A unit is a *)
(* chunk of the original text: one special character (space, newline,      *)
(* asterisk, colon, ...) or a run of alphanumeric characters cut at the    *)
(* boundaries of every keyword the code searches for, so that Python's     *)
(* `needle in haystack` is "needle is a contiguous run of the units of     *)
(* haystack".  Korean units are written in Revised Romanisation (the       *)
(* module is ASCII); their length in characters is kept in HangulUnits1..6.*)
(***************************************************************************)
EXTENDS Integers, Sequences, FiniteSets, TLC

VARIABLES
    pc,               \* position of analyze_market_trend / of the entry point that runs
    api_key,          \* os.getenv('DEEPSEEK_API_KEY') is set
    now,              \* get_kst_time() at the entry of main: weekday and hour
    steps,            \* the calls main has made to its collaborators, in order
    market_data,      \* argument market_data
    news,             \* argument news
    today,            \* datetime.now().strftime('%Y-%m-%d')
    market_commentary,\* local of analyze_market_trend
    out,              \* value returned by analyze_market_trend
    calls,            \* how often each request of the orchestrator was started
    req,              \* which request the running client call serves
    prompt,           \* argument prompt of _get_deepseek_analysis
    max_retries,      \* argument max_retries of _get_deepseek_analysis
    attempt,          \* loop variable attempt of _get_deepseek_analysis
    phase,            \* position inside _get_deepseek_analysis
    result,           \* local result: the asterisk-stripped first answer
    ret,              \* value returned by _get_deepseek_analysis
    events,           \* the requests.post and time.sleep calls of the running client
                      \* call, in order
    tag_title,        \* argument title of _create_tags_from_content
    tag_content,      \* argument content of _create_tags_from_content
    tags              \* value returned by _create_tags_from_content

vars == <<pc, api_key, now, steps, market_data, news, today, market_commentary, out, calls, req, prompt,
          max_retries, attempt, phase, result, ret, events, tag_title,
          tag_content, tags>>

client_vars == <<req, prompt, max_retries, attempt, phase, result, ret, events>>
pipeline_vars == <<market_data, news, today, market_commentary, out, calls>>
tag_vars == <<tag_title, tag_content, tags>>
main_vars == <<api_key, now, steps>>

-----------------------------------------------------------------------------
(* Bounds of the model *)

\* longest news list the inputs hold
MaxNews == 2
\* largest max_retries a direct call of the client is given
MaxRetriesArg == 3
\* random.sample draws positions 1..PickBound of a tag set
PickBound == 5
\* longest news list the prompt builder is given
MaxPromptNews == 6

-----------------------------------------------------------------------------
(* Tables and string literals of market_analyzer.py, as unit sequences *)

base_tag_sets ==
    << <<<<"jusik">>, <<"jusiktuja">>, <<"jusiksijang">>, <<"jusik", "bunseok">>, <<"jusikgongbu">>>>,
       <<<<"sijang", "bunseok">>, <<"sijangdonghyang">>, <<"sijangjeonmang">>, <<"sijangisyu">>, <<"sijangribyu">>>>,
       <<<<"tuja">>, <<"tujajeonryak">>, <<"tuja", "bunseok">>, <<"tujaisyu">>, <<"tujajeonmang">>>>,
       <<<<"gyeongje">>, <<"gyeongjedonghyang">>, <<"gyeongjeisyu">>, <<"gyeongjejeonmang">>, <<"geulrobeolgyeongje">>>>,
       <<<<"migukjusik">>, <<"miguksijang">>, <<"migukgyeongje">>, <<"naseudak">>, <<"S", "&", "P500">>, <<"daujonseu">>>>,
       <<<<"geosigyeongje">>, <<"geumri">>, <<"inpeulreisyeon">>, <<"goyong">>, <<"GDP">>, <<"muyeok">>, <<"gwanse">>, <<"jeongchaek">>>>,
       <<<<"geulrobeolsijang">>, <<"geulrobeolgyeongje">>, <<"gukje", "muyeok">>, <<"hwanyul">>, <<"wonjajae">>, <<"eneoji">>>> >>
sector_sets ==
    << <<<<"tekeu">>, <<"gisul">>, <<"AI">>, <<"bandoche">>, <<"sopeuteuweeo">>, <<"hadeuweeo">>, <<"keulraudeu">>, <<"metabeoseu">>>>,
       <<<<"geumyung">>, <<"eunhaeng">>, <<"jeunggwon">>, <<"boheom">>, <<"pin", "tekeu">>, <<"dijiteol", "geumyung">>>>,
       <<<<"eneoji">>, <<"seokyu">>, <<"gaseu">>, <<"jaesaeng", "eneoji">>, <<"taeyanggwang">>, <<"pungryeok">>, <<"wonjaryeok">>>>,
       <<<<"sobijae">>, <<"yutong">>, <<"sikpum">>, <<"uiryu">>, <<"hwajangpum">>, <<"paesyeon">>, <<"somae">>>>,
       <<<<"helseukeeo">>, <<"baio">>, <<"jeyak">>, <<"uiryo">>, <<"geongang">>, <<"uiryo", "gigi">>>>,
       <<<<"saneopjae">>, <<"jejo">>, <<"jadongcha">>, <<"hanggong">>, <<"bangwi">>, <<"gigye">>, <<"geonseol">>>>,
       <<<<"yutilriti">>, <<"jeongi">>, <<"gaseu">>, <<"sudo">>, <<"inpeura">>>>,
       <<<<"budongsan">>, <<"REITs">>, <<"sangeopyong", "budongsan">>, <<"jugeoyong", "budongsan">>>>,
       <<<<"tongsin">>, <<"telrekom">>, <<"5G">>, <<"inteones">>, <<"midieo">>, <<"enteoteinmeonteu">>>>,
       <<<<"jaeryo">>, <<"hwahak">>, <<"cheolgang">>, <<"bicheolgeumsok">>, <<"peulraseutik">>>> >>
macro_indicators ==
    <<<<"geumri">>, <<"inpeulreisyeon">>, <<"goyong">>, <<"GDP">>, <<"sobijamulga">>,
    <<"saengsanjamulga">>, <<"muyeok">>, <<"gwanse">>, <<"jeongchaek">>, <<"hwanyul">>,
    <<"wonjajae">>, <<"eneoji">>, <<"geulrobeolgyeongje">>>>
default_tags ==
    <<<<"jusik">>, <<"sijang", "bunseok">>, <<"tuja">>, <<"gyeongje">>, <<"migukjusik">>,
    <<"geosigyeongje">>, <<"geulrobeolgyeongje">>>>
TagOrder ==
    <<"5G", "AI", "GDP", "REITs", "SP500", "USD", "gaseu", "geosigyeongje", "geongang",
    "geonseol", "gyeongje", "gyeongjedonghyang", "gyeongjeisyu", "gyeongjejeonmang", "goyong",
    "gwanse", "gukjemuyeok", "geulrobeolgyeongje", "geulrobeolsijang", "geumri", "geumyung",
    "gigye", "gisul", "naseudak", "daujonseu", "dijiteolgeumyung", "metabeoseu", "muyeok",
    "migukgyeongje", "miguksijang", "migukjusik", "midieo", "baio", "bandoche", "bangwi",
    "boheom", "budongsan", "bicheolgeumsok", "saneopjae", "sangeopyongbudongsan",
    "saengsanjamulga", "seokyu", "somae", "sobijamulga", "sobijae", "sopeuteuweeo", "sudo",
    "sijangdonghyang", "sijangribyu", "sijangbunseok", "sijangisyu", "sijangjeonmang", "sikpum",
    "eneoji", "enteoteinmeonteu", "wonjaryeok", "wonjajae", "yutong", "yutilriti", "eunhaeng",
    "uiryo", "uiryogigi", "uiryu", "inteones", "inpeura", "inpeulreisyeon", "jadongcha",
    "jaeryo", "jaesaengeneoji", "jeongi", "jeongchaek", "jeyak", "jejo", "jugeoyongbudongsan",
    "jusik", "jusikgongbu", "jusikbunseok", "jusiksijang", "jusiktuja", "jeunggwon",
    "cheolgang", "keulraudeu", "taeyanggwang", "tekeu", "telrekom", "tongsin", "tuja",
    "tujabunseok", "tujaisyu", "tujajeonryak", "tujajeonmang", "paesyeon", "pungryeok",
    "peulraseutik", "pintekeu", "hadeuweeo", "hanggong", "helseukeeo", "hwajangpum", "hwahak",
    "hwanyul">>
FailGeneric ==
    <<"sijang", " ", "bunseok", " ", "saengseonge", " ", "silpae", "haessseupnida", ".", " ",
    "jamsi", " ", "hu", " ", "dasi", " ", "sidohae", " ", "juseyo", ".">>
FailTimeout ==
    <<"sijang", " ", "bunseok", " ", "saengseonge", " ", "silpae", "haessseupnida", ".", " ",
    "seobeo", " ", "eungdapi", " ", "jiyeondoego", " ", "issseupnida", ".">>
FailSystem ==
    <<"sijang", " ", "bunseok", " ", "saengseonge", " ", "silpae", "haessseupnida", ".", " ",
    "siseutem", " ", "oryuga", " ", "balsaenghaessseupnida", ".">>
FailNoResponse ==
    <<"sijang", " ", "bunseok", " ", "saengseonge", " ", "silpae", "haessseupnida", ".", " ",
    "yeoreo", " ", "beon", " ", "sidohaesseuna", " ", "eungdapeul", " ", "batji", " ",
    "moshaessseupnida", ".">>
FailureSentinel ==
    <<"bunseok", " ", "naeyong", " ", "saengseonge", " ", "silpae">>
TitleMarker ==
    <<"jemokeul", " ", "jakseonghaejuseyo">>
FallbackTitleTail ==
    <<" ", "geulrobeol", " ", "sijang", " ", "donghyang">>
FallbackHead ==
    <<"oneului", " ", "sijang", " ", "donghyangeul", " ", "bunseok", "haebogessseupnida", ".",
    "<nl>", "<nl>", "juyo", " ", "sijang", " ", "jipyo", ":", "<nl>">>
FallbackRateHead ==
    <<"<nl>", "-", " ", "hyeonjae", " ", "hwanyul", ":", " ">>
FallbackRateTail ==
    <<"won", "<nl>">>
FallbackChangeHead ==
    <<"<nl>", "-", " ", "jeonil", " ", "daebi", " ", "byeondongpok", ":", " ">>
FallbackChangeTail ==
    <<"%", "<nl>">>
FallbackNewsHead ==
    <<"<nl>", "juyo", " ", "sijang", " ", "nyuseu", ":", "<nl>">>
GenericTitleHead ==
    <<"oneului", " ", "sijang", " ", "donghyang", " ", "bunseok", " ", "-", " ">>
GenericCommentary ==
    <<"siseutem", " ", "oryuro", " ", "inhae", " ", "bunseok", "eul", " ", "wanryohaji", " ",
    "moshaessseupnida", ".", " ", "jamsi", " ", "hu", " ", "dasi", " ", "sidohae", " ",
    "jusigi", " ", "barapnida", ".">>
FallbackTitleRateTail ==
    <<" ", "geulrobeol", " ", "sijang", ":", " ", "hwanyul", " ", "donghyang", " ", "bunseok">>
TextStars ==
    <<"*", "*">>
TextBold ==
    <<"*", "*", "hwanyul", "*", "*", " ", "sangseung">>
TextSentinel ==
    <<"bunseok", " ", "naeyong", " ", "saengseonge", " ", "silpae">>
TextReport ==
    <<"geumri", ":", " ", "donggyeol", "<nl>", "bandoche", " ", "AI", " ", "gangse">>
NewsPlain ==
    <<"wondalreo", " ", "hwanyul", " ", "sangseung">>
NewsStar ==
    <<"*", "sokbo", "*", " ", "hwanyul", " ", "geupdeung">>
NewsMarker ==
    <<"kalreom", " ", "jemokeul", " ", "jakseonghaejuseyo">>
NewsBody ==
    <<"miguk", " ", "gwanse", " ", "yuye">>
TagTitle ==
    <<"[", "05", "/", "01", " ", "09", ":", "00", " ", "hwanyul", "bunseok", "]", " ",
    "wondalreo", " ", "1", ",", "456won">>
TagContentMacro ==
    <<"geumri", " ", "inpeulreisyeon", " ", "goyong", " ", "GDP", " ", "muyeok", " ", "gwanse",
    " ", "jeongchaek", " ", "hwanyul">>
TagContentSector ==
    <<"pin", "tekeu", " ", "eunhaeng", ":", " ", "hojo", "<nl>", "jaesaeng", "eneoji", " ", "S",
    "&", "P500", " ", "USD", " ", "REITs", " ", "5G">>
HangulUnits1 ==
    {"<nl>", "beon", "eul", "hu", "pin", "won"}
HangulUnits2 ==
    {"bangwi", "batji", "boheom", "bunseok", "cheolgang", "daebi", "dasi", "donggyeol",
    "donghyang", "eunhaeng", "gangse", "gaseu", "geongang", "geonseol", "geumri", "geumyung",
    "geupdeung", "gigi", "gigye", "gisul", "goyong", "gukje", "gwanse", "gyeongje", "hanggong",
    "hojo", "hwahak", "hwanyul", "hyeonjae", "inhae", "jaeryo", "jaesaeng", "jamsi", "jejo",
    "jeongchaek", "jeongi", "jeonil", "jeunggwon", "jeyak", "jipyo", "jusik", "juyo", "kalreom",
    "miguk", "muyeok", "naeyong", "nyuseu", "paesyeon", "pungryeok", "sangseung", "seobeo",
    "seokyu", "sijang", "sikpum", "silpae", "sokbo", "somae", "sudo", "tekeu", "tongsin",
    "tuja", "uiryo", "uiryu", "yeoreo", "yutong", "yuye"}
HangulUnits3 ==
    {"baio", "bandoche", "budongsan", "byeondongpok", "dijiteol", "donghyangeul", "eneoji",
    "eungdapeul", "eungdapi", "geulrobeol", "hwajangpum", "inpeura", "inteones", "jadongcha",
    "jemokeul", "jugeoyong", "juseyo", "jusigi", "midieo", "naseudak", "oneului", "oryuga",
    "oryuro", "saengseonge", "saneopjae", "sangeopyong", "sidohae", "siseutem", "sobijae",
    "taeyanggwang", "telrekom", "wondalreo", "wonjajae", "wonjaryeok"}
HangulUnits4 ==
    {"456won", "barapnida", "bicheolgeumsok", "daujonseu", "geosigyeongje", "gyeongjedonghyang",
    "gyeongjeisyu", "gyeongjejeonmang", "hadeuweeo", "haessseupnida", "helseukeeo",
    "issseupnida", "jiyeondoego", "jusikgongbu", "jusiksijang", "jusiktuja", "keulraudeu",
    "metabeoseu", "migukgyeongje", "migukjusik", "miguksijang", "peulraseutik",
    "sijangdonghyang", "sijangisyu", "sijangjeonmang", "sijangribyu", "tujaisyu",
    "tujajeonmang", "tujajeonryak", "wanryohaji", "yutilriti"}
HangulUnits5 ==
    {"geulrobeolgyeongje", "geulrobeolsijang", "inpeulreisyeon", "moshaessseupnida",
    "saengsanjamulga", "sidohaesseuna", "sobijamulga", "sopeuteuweeo"}
HangulUnits6 ==
    {"balsaenghaessseupnida", "enteoteinmeonteu", "haebogessseupnida", "jakseonghaejuseyo"}
SpecialUnits ==
    {" ", "%", "&", "*", ",", "-", ".", "/", ":", "<nl>", "[", "]"}
SpaceUnits ==
    {" ", "<nl>"}
UpperUnits ==
    {"5G", "AI", "GDP", "P500", "S", "USD"}
LowerUnits ==
    {"REITs"}

-----------------------------------------------------------------------------
(* Python str operations on unit sequences *)

\* len(u) of one unit, in characters
ULen(u) ==
    IF u \in HangulUnits1 THEN 1
    ELSE IF u \in HangulUnits2 THEN 2
    ELSE IF u \in HangulUnits3 THEN 3
    ELSE IF u \in HangulUnits4 THEN 4
    ELSE IF u \in HangulUnits5 THEN 5
    ELSE IF u \in HangulUnits6 THEN 6
    ELSE Len(u)

RECURSIVE CharLen(_)
\* len(s)
CharLen(s) == IF s = <<>> THEN 0 ELSE ULen(Head(s)) + CharLen(Tail(s))

RECURSIVE Join(_)
\* the str itself, as one TLA+ string (used to compare and order tags)
Join(s) == IF s = <<>> THEN "" ELSE Head(s) \o Join(Tail(s))

\* needle in hay
IsSubstring(needle, hay) ==
    \E i \in 0..(Len(hay) - Len(needle)) :
        \A j \in 1..Len(needle) : hay[i + j] = needle[j]

\* s.replace('*', '')
StripAsterisks(s) == SelectSeq(s, LAMBDA u : u # "*")

\* bool(s) of a str
Truthy(s) == Len(s) > 0

\* ''.join(c for c in s if c.isalnum() or c.isspace())
CleanChars(s) == SelectSeq(s, LAMBDA u : u \notin SpecialUnits \/ u \in SpaceUnits)

\* s.strip()
RECURSIVE LStrip(_)
LStrip(s) == IF s # <<>> /\ Head(s) \in SpaceUnits THEN LStrip(Tail(s)) ELSE s
RECURSIVE RStrip(_)
RStrip(s) ==
    IF s # <<>> /\ s[Len(s)] \in SpaceUnits THEN RStrip(SubSeq(s, 1, Len(s) - 1)) ELSE s
Strip(s) == RStrip(LStrip(s))

RECURSIVE SplitOn(_, _, _)
\* the pieces of s between the units of seps, the current piece being cur
SplitOn(s, seps, cur) ==
    IF s = <<>> THEN <<cur>>
    ELSE IF Head(s) \in seps THEN <<cur>> \o SplitOn(Tail(s), seps, <<>>)
    ELSE SplitOn(Tail(s), seps, Append(cur, Head(s)))

\* s.split(): split on runs of whitespace, no empty pieces
SplitWords(s) == SelectSeq(SplitOn(s, SpaceUnits, <<>>), LAMBDA w : w # <<>>)

\* s.split('\n')
SplitLines(s) == SplitOn(s, {"<nl>"}, <<>>)

\* s.split(':')[0]
BeforeColon(s) == Head(SplitOn(s, {":"}, <<>>))

\* s.isupper(): some cased character, none of them lower case
IsUpper(s) ==
    /\ \E i \in 1..Len(s) : s[i] \in UpperUnits
    /\ \A i \in 1..Len(s) : s[i] \notin LowerUnits

\* two decimal digits of n, 0 <= n < 100
Pad2(n) == IF n < 10 THEN "0" \o ToString(n) ELSE ToString(n)

Abs(n) == IF n < 0 THEN -n ELSE n

\* f"{x:.2f}" of a number held in hundredths
Fmt2f(x) ==
    (IF x < 0 THEN <<"-">> ELSE <<>>)
        \o <<ToString(Abs(x) \div 100), ".", Pad2(Abs(x) % 100)>>

\* f"{x:+.2f}" of a number held in hundredths
FmtPlus2f(x) ==
    (IF x < 0 THEN <<"-">> ELSE <<"+">>)
        \o <<ToString(Abs(x) \div 100), ".", Pad2(Abs(x) % 100)>>

-----------------------------------------------------------------------------
(* _get_deepseek_analysis: the retrying client *)

\* default of the parameter max_retries
DefaultMaxRetries == 3

\* what one requests.post can come to: a 200 answer carrying text, a 200
\* answer whose body has no choices[0].message.content string, another
\* status, requests.exceptions.Timeout, any other exception
ResponseKinds == {"ok", "badbody", "status", "timeout", "error"}

\* texts the endpoint answers with
ContentTexts == {<<>>, TextStars, TextBold, TextSentinel, TextReport}

Responses ==
    [kind : {"ok"}, content : ContentTexts]
        \cup [kind : ResponseKinds \ {"ok"}, content : {<<>>}]

FailureStrings == {FailGeneric, FailTimeout, FailSystem, FailNoResponse}

\* "jemokeul jakseonghaejuseyo" in prompt
IsTitleRequest(p) == IsSubstring(TitleMarker, p)

\* a backoff that starts at two seconds: 2 ** (attempt + 1)
BackoffSecondsFromTwo(a) == 2 ^ (a + 1)

\* wait_time = 2 ** attempt
BackoffSeconds(a) == 2 ^ a

\* a retry test that is off by one: attempt < max_retries
ShouldRetryOnceMore(a, m) == a < m

\* attempt < max_retries - 1
ShouldRetry(a, m) == a < m - 1

\* a client with one failure string for every kind of failure
FailureStringGenericOnly(kind) == FailGeneric

\* the string returned when the last attempt fails
FailureString(kind) ==
    CASE kind = "status" -> FailGeneric
      [] kind = "timeout" -> FailTimeout
      [] OTHER -> FailSystem

\* the handler a failing requests.post of the refinement call lands in:
\* a non-200 status is answered in place, an exception leaves the try block
RefineHandler(kind) ==
    CASE kind = "status" -> "return_unrefined"
      [] kind = "timeout" -> "except_timeout"
      [] OTHER -> "except_exception"

ClientIdle ==
    /\ req' = "none"
    /\ prompt' = <<>>
    /\ max_retries' = 0
    /\ attempt' = 0
    /\ phase' = "idle"
    /\ result' = <<>>
    /\ ret' = <<>>
    /\ events' = <<>>

\* entry of _get_deepseek_analysis(p, m): for attempt in range(m)
BeginCall(r, p, m) ==
    /\ req' = r
    /\ prompt' = p
    /\ max_retries' = m
    /\ attempt' = 0
    /\ result' = <<>>
    /\ events' = <<>>
    /\ IF m > 0
       THEN phase' = "primary" /\ ret' = <<>>
       ELSE phase' = "returned" /\ ret' = FailNoResponse

\* one requests.post and what came of it
Post(call, kind) == [call |-> call, attempt |-> attempt, outcome |-> kind, seconds |-> 0]

\* one time.sleep(wait_time)
Sleep(wait_time) ==
    [call |-> "sleep", attempt |-> attempt, outcome |-> "slept", seconds |-> wait_time]

\* return text, after the requests.post post
Return(post, text) ==
    /\ events' = Append(events, post)
    /\ phase' = "returned"
    /\ ret' = text
    /\ UNCHANGED attempt

\* failure branches that sleep before giving up as well
RetryOrFailSleepingLast(post, kind) ==
    IF ShouldRetry(attempt, max_retries)
    THEN /\ events' = events \o <<post, Sleep(BackoffSeconds(attempt))>>
         /\ attempt' = attempt + 1
         /\ phase' = "primary"
         /\ UNCHANGED ret
    ELSE /\ events' = events \o <<post, Sleep(BackoffSeconds(attempt))>>
         /\ phase' = "returned"
         /\ ret' = FailureString(kind)
         /\ UNCHANGED attempt

\* the three failure branches: sleep and go round the loop, or give up
RetryOrFail(post, kind) ==
    IF ShouldRetry(attempt, max_retries)
    THEN /\ events' = events \o <<post, Sleep(BackoffSeconds(attempt))>>
         /\ attempt' = attempt + 1
         /\ phase' = "primary"
         /\ UNCHANGED ret
    ELSE Return(post, FailureString(kind))

\* the first requests.post of an attempt and the branch its answer takes
PrimaryPost ==
    /\ phase = "primary"
    /\ \E r \in Responses :
        LET post == Post("primary", r.kind)
            text == StripAsterisks(r.content)
        IN  IF r.kind = "ok"
            THEN /\ result' = text
                 /\ IF IsTitleRequest(prompt)
                    THEN Return(post, text)
                    ELSE /\ events' = Append(events, post)
                         /\ phase' = "refine"
                         /\ UNCHANGED <<attempt, ret>>
            ELSE /\ RetryOrFail(post, IF r.kind = "badbody" THEN "error" ELSE r.kind)
                 /\ UNCHANGED result
    /\ UNCHANGED <<req, prompt, max_retries>>

\* the refinement requests.post and the branch its answer takes
RefinePost ==
    /\ phase = "refine"
    /\ \E r \in Responses :
        LET post == Post("refine", r.kind)
            h == RefineHandler(IF r.kind = "badbody" THEN "error" ELSE r.kind)
        IN  IF r.kind = "ok"
            THEN Return(post, StripAsterisks(r.content))
            ELSE IF h = "return_unrefined"
                 THEN Return(post, result)
                 ELSE RetryOrFail(post, IF h = "except_timeout" THEN "timeout" ELSE "error")
    /\ UNCHANGED <<req, prompt, max_retries, result>>

-----------------------------------------------------------------------------
(* _create_tags_from_content: the tag extractor *)

\* final_tags[:15]
MaxTags == 15

Range(seq) == {seq[i] : i \in 1..Len(seq)}

\* position of a tag in the code-point order sorted() uses
Rank(t) == CHOOSE i \in 1..Len(TagOrder) : TagOrder[i] = t

\* sorted(S) of a set of tags: the tags of S in the order of TagOrder (a tag
\* that TagOrder does not list has no rank, and evaluation stops there)
SortTags(S) ==
    IF S \subseteq Range(TagOrder)
    THEN SelectSeq(TagOrder, LAMBDA t : t \in S)
    ELSE <<Rank(CHOOSE t \in S : t \notin Range(TagOrder))>>

\* seq[:n]
Take(seq, n) == SubSeq(seq, 1, IF Len(seq) < n THEN Len(seq) ELSE n)

RECURSIVE Flatten(_)
\* the concatenation of a sequence of sequences
Flatten(ss) == IF ss = <<>> THEN <<>> ELSE Head(ss) \o Flatten(Tail(ss))

\* the positions random.sample may draw: two distinct positions per tag set,
\* the same two for every set
Picks == {p \in (1..PickBound) \X (1..PickBound) : p[1] < p[2]}

\* random.sample(tag_set, min(2, len(tag_set))), drawing the positions of pick
RandomSample2(tag_set, pick) ==
    LET n == Len(tag_set)
        a == IF pick[1] < n - 1 THEN pick[1] ELSE n - 1
        b == IF pick[2] < n THEN pick[2] ELSE n
    IN  IF n < 2 THEN tag_set ELSE <<tag_set[a], tag_set[b]>>

\* base_tags: two tags of every base tag set
BaseTags(pick) ==
    Flatten([i \in 1..Len(base_tag_sets) |-> RandomSample2(base_tag_sets[i], pick)])

\* the cleaned words longer than one character
Keywords(words) ==
    SelectSeq([i \in 1..Len(words) |-> CleanChars(words[i])], LAMBDA w : CharLen(w) > 1)

\* title_keywords
TitleKeywords(title) == Keywords(SplitWords(title))

\* the keywords one line of the content gives
LineKeywords(line) ==
    IF \E i \in 1..Len(line) : line[i] = ":"
    THEN Keywords(<<Strip(BeforeColon(line))>>)
    ELSE IF Len(Strip(line)) > 0 THEN Keywords(SplitWords(Strip(line))) ELSE <<>>

\* content_keywords
ContentKeywords(content) ==
    LET lines == SplitLines(content)
    IN  Flatten([i \in 1..Len(lines) |-> LineKeywords(lines[i])])

\* macro_keywords: the indicators found in some word, in table order
MacroKeywords(words) ==
    SelectSeq(macro_indicators,
              LAMBDA ind : \E i \in 1..Len(words) : IsSubstring(ind, words[i]))

\* symbols: upper-case words of at most five characters
Symbols(words) == SelectSeq(words, LAMBDA w : IsUpper(w) /\ CharLen(w) <= 5)

\* the first indicator of one sector set found in the word, if any
SectorMatch(indicators, word) ==
    LET hits == SelectSeq(indicators, LAMBDA ind : IsSubstring(ind, word))
    IN  IF hits = <<>> THEN <<>> ELSE <<Head(hits)>>

\* sector_keywords: for every word, for every sector, the first indicator found
SectorKeywords(words) ==
    Flatten([i \in 1..Len(words) |->
        Flatten([k \in 1..Len(sector_sets) |-> SectorMatch(sector_sets[k], words[i])])])

\* final_tags before set(): the macro keywords as they are, the others cleaned
\* and kept when longer than one character
FinalTags(words, pick) ==
    LET rest == BaseTags(pick) \o Symbols(words) \o SectorKeywords(words)
        kept == Keywords(rest)
        all  == MacroKeywords(words) \o kept
    IN  [i \in 1..Len(all) |-> Join(all[i])]

\* the try block: sorted(list(set(final_tags)))[:15]
ExtractTags(title, content, pick) ==
    LET words == TitleKeywords(title) \o ContentKeywords(content)
    IN  Take(SortTags(Range(FinalTags(words, pick))), MaxTags)

\* the draws random.sample(base_tags, 3) can return
DefaultDraws ==
    {d \in (1..Len(default_tags)) \X (1..Len(default_tags)) \X (1..Len(default_tags)) :
        d[1] # d[2] /\ d[1] # d[3] /\ d[2] # d[3]}

\* the except block: random.sample(base_tags, 3)
DefaultSample(d) == [i \in 1..3 |-> Join(default_tags[d[i]])]

\* the values _create_tags_from_content(title, content) can return; an
\* argument that is no str makes title.split() or content.split() raise
CreateTagsFromContent(title, content) ==
    IF title.is_str /\ content.is_str
    THEN {ExtractTags(title.s, content.s, p) : p \in Picks}
    ELSE {DefaultSample(d) : d \in DefaultDraws}

Str(s) == [is_str |-> TRUE, s |-> s]
NotStr == [is_str |-> FALSE, s |-> <<>>]

-----------------------------------------------------------------------------
(* analyze_market_trend and the builders it calls *)

\* the keys the validation asks for
RequiredKeys == {"Close", "Change", "ChangePercent", "Date"}

\* news['content'][:100]
ExcerptChars == 100

\* a value of the snapshot: a number (held in hundredths) or something that
\* the format specs .2f and +.2f reject
Num(v) == [num |-> TRUE, v |-> v]
NotNum == [num |-> FALSE, v |-> 0]

NoResult == [pending |-> TRUE]

\* the argument data of the fallback builders: None, or the dict prepared_data
NoData ==
    [given |-> FALSE, keys |-> {}, current_rate |-> NotNum, daily_change |-> NotNum,
     naver_news |-> <<>>]

\* prepared_data of analyze_market_trend
PreparedData(md, nw) ==
    [given |-> TRUE,
     keys |-> {"current_rate", "daily_change", "change_value", "date"}
                \cup (IF nw # <<>> THEN {"naver_news"} ELSE {}),
     current_rate |-> md.fields["Close"],
     daily_change |-> md.fields["ChangePercent"],
     naver_news |-> nw]

\* not isinstance(market_data, dict) or not all(key in market_data ...)
IsMalformed(md) == ~md.is_dict \/ ~(RequiredKeys \subseteq DOMAIN md.fields)

\* the f-strings over data render: the numbers format, every item has a title
Renders(data) ==
    /\ "current_rate" \in data.keys => data.current_rate.num
    /\ "daily_change" \in data.keys => data.daily_change.num
    /\ \A i \in 1..Len(data.naver_news) : data.naver_news[i].has_title

RECURSIVE TakeChars(_, _)
\* s[:n], cut at a unit boundary
TakeChars(s, n) ==
    IF s = <<>> \/ ULen(Head(s)) > n THEN <<>>
    ELSE <<Head(s)>> \o TakeChars(Tail(s), n - ULen(Head(s)))

\* the lines one news item adds to the commentary prompt
PromptNewsItem(item) ==
    <<"<nl>", "-", " ">> \o item.title
        \o (IF item.has_content /\ Truthy(item.content)
            THEN <<"<nl>", " ", " ">> \o TakeChars(item.content, ExcerptChars)
                    \o <<".", ".", ".">>
            ELSE <<>>)

\* _create_market_commentary_prompt(data)
CreateMarketCommentaryPrompt(data) ==
    <<"<analyse the USD/KRW data as of>", " ">> \o today \o <<" ", "<HH:MM>", " ", "KST", "<nl>">>
        \o <<"<current rate>", ":", " ">> \o Fmt2f(data.current_rate.v) \o <<"won", "<nl>">>
        \o <<"<against previous day>", ":", " ">> \o FmtPlus2f(data.daily_change.v)
        \o <<"%", "<nl>", "<nl>", "<main news>">>
        \o (IF "naver_news" \in data.keys /\ data.naver_news # <<>>
            THEN <<"<nl>", "<naver finance news>", ":">>
                    \o Flatten([i \in 1..Len(data.naver_news) |->
                                    PromptNewsItem(data.naver_news[i])])
            ELSE <<"<nl>", "-", " ", "<no major news today>">>)
        \o <<"<nl>", "<commentary requirements>">>

\* _create_title_from_commentary_prompt(analysis)
CreateTitlePrompt(analysis) ==
    <<"<from this analysis a blog post>", " ">> \o TitleMarker
        \o <<".", "<nl>", "<nl>", "bunseok", " ", "naeyong", ":", " ">> \o analysis
        \o <<"<nl>", "<nl>", "<title requirements>">>

\* the lines the news items add to the fallback commentary
FallbackNewsLines(items) ==
    Flatten([i \in 1..Len(items) |-> <<"-", " ">> \o items[i].title \o <<"<nl>">>])

\* _create_fallback_content(data)
CreateFallbackContent(data) ==
    IF data.given /\ data.keys # {}
    THEN [title |-> today \o FallbackTitleTail,
          commentary |->
              FallbackHead
                \o (IF "current_rate" \in data.keys
                    THEN FallbackRateHead \o Fmt2f(data.current_rate.v) \o FallbackRateTail
                    ELSE <<>>)
                \o (IF "daily_change" \in data.keys
                    THEN FallbackChangeHead \o FmtPlus2f(data.daily_change.v)
                            \o FallbackChangeTail
                    ELSE <<>>)
                \o (IF "naver_news" \in data.keys
                    THEN FallbackNewsHead \o FallbackNewsLines(data.naver_news)
                    ELSE <<>>)]
    ELSE [title |-> GenericTitleHead \o today, commentary |-> GenericCommentary]

\* _create_fallback_title(data)
CreateFallbackTitle(data) ==
    IF {"current_rate", "daily_change"} \subseteq data.keys
    THEN today \o FallbackTitleRateTail
    ELSE today \o FallbackTitleTail

\* "bunseok naeyong saengseonge silpae" in text
IsFailureSentinel(text) == IsSubstring(FailureSentinel, text)

\* a test that forgets the empty answer: only the substring test
CallFailedSentinelOnly(text) == IsFailureSentinel(text)

\* not text or "bunseok naeyong saengseonge silpae" in text
CallFailed(text) == ~Truthy(text) \/ IsFailureSentinel(text)

\* ExchangeRateAnalyzer(config): raises ValueError when the key is not set
Construct ==
    /\ pc = "construct"
    /\ pc' = IF api_key THEN "start" ELSE "raised"
    /\ UNCHANGED <<pipeline_vars, client_vars, tag_vars, main_vars>>

\* an analyze_market_trend without its try block: an exception raised while
\* the prompt is rendered reaches the caller
ValidateUnguarded ==
    /\ pc = "start"
    /\ IF IsMalformed(market_data)
       THEN /\ out' = CreateFallbackContent(NoData)
            /\ pc' = "done"
            /\ UNCHANGED <<calls, client_vars>>
       ELSE LET data == PreparedData(market_data, news)
            IN  IF ~Renders(data)
                THEN /\ pc' = "raised"
                     /\ UNCHANGED <<out, calls, client_vars>>
                ELSE /\ BeginCall("commentary", CreateMarketCommentaryPrompt(data),
                                  DefaultMaxRetries)
                     /\ calls' = [calls EXCEPT !.commentary = @ + 1]
                     /\ pc' = "commentary"
                     /\ UNCHANGED out
    /\ UNCHANGED <<market_data, news, today, market_commentary, tag_vars, main_vars>>

\* validation, prepared_data, the commentary prompt and the start of the
\* commentary request
Validate ==
    /\ pc = "start"
    /\ IF IsMalformed(market_data)
       THEN /\ out' = CreateFallbackContent(NoData)
            /\ pc' = "done"
            /\ UNCHANGED <<calls, client_vars>>
       ELSE LET data == PreparedData(market_data, news)
            IN  IF ~Renders(data)
                THEN \* the prompt builder raises: except Exception
                     /\ out' = CreateFallbackContent(NoData)
                     /\ pc' = "done"
                     /\ UNCHANGED <<calls, client_vars>>
                ELSE /\ BeginCall("commentary", CreateMarketCommentaryPrompt(data),
                                  DefaultMaxRetries)
                     /\ calls' = [calls EXCEPT !.commentary = @ + 1]
                     /\ pc' = "commentary"
                     /\ UNCHANGED out
    /\ UNCHANGED <<market_data, news, today, market_commentary, tag_vars, main_vars>>

\* an orchestrator that asks for the commentary a second time when the first
\* request failed
CommentaryReturnedRetrying ==
    /\ pc = "commentary"
    /\ phase = "returned"
    /\ market_commentary' = ret
    /\ IF CallFailed(ret)
       THEN IF calls.commentary < 2
            THEN /\ BeginCall("commentary",
                              CreateMarketCommentaryPrompt(PreparedData(market_data, news)),
                              DefaultMaxRetries)
                 /\ calls' = [calls EXCEPT !.commentary = @ + 1]
                 /\ UNCHANGED <<pc, out>>
            ELSE /\ out' = CreateFallbackContent(PreparedData(market_data, news))
                 /\ pc' = "done"
                 /\ ClientIdle
                 /\ UNCHANGED calls
       ELSE /\ BeginCall("title", CreateTitlePrompt(ret), DefaultMaxRetries)
            /\ calls' = [calls EXCEPT !.title = @ + 1]
            /\ pc' = "title"
            /\ UNCHANGED out
    /\ UNCHANGED <<market_data, news, today, tag_vars, main_vars>>

\* the commentary request has returned: fallback content, or the title request
CommentaryReturned ==
    /\ pc = "commentary"
    /\ phase = "returned"
    /\ market_commentary' = ret
    /\ IF CallFailed(ret)
       THEN /\ out' = CreateFallbackContent(PreparedData(market_data, news))
            /\ pc' = "done"
            /\ ClientIdle
            /\ UNCHANGED calls
       ELSE /\ BeginCall("title", CreateTitlePrompt(ret), DefaultMaxRetries)
            /\ calls' = [calls EXCEPT !.title = @ + 1]
            /\ pc' = "title"
            /\ UNCHANGED out
    /\ UNCHANGED <<market_data, news, today, tag_vars, main_vars>>

\* the title request has returned: fallback title, then the tag extractor
TitleReturned ==
    /\ pc = "title"
    /\ phase = "returned"
    /\ LET title == IF CallFailed(ret)
                    THEN CreateFallbackTitle(PreparedData(market_data, news))
                    ELSE ret
       IN  /\ tag_title' = Str(title)
           /\ tag_content' = Str(market_commentary)
    /\ pc' = "tags"
    /\ ClientIdle
    /\ UNCHANGED <<pipeline_vars, tags, main_vars>>

\* _create_tags_from_content(title, market_commentary) and the result
TagsReturned ==
    /\ pc = "tags"
    /\ \E t \in CreateTagsFromContent(tag_title, tag_content) :
          /\ tags' = t
          /\ out' = [title |-> tag_title.s, commentary |-> market_commentary, tags |-> t]
    /\ pc' = "done"
    /\ UNCHANGED <<market_data, news, today, market_commentary, calls, client_vars,
                   tag_title, tag_content, main_vars>>

\* the HTTP exchanges of the request that is running
ClientStep ==
    /\ pc \in {"commentary", "title", "client"}
    /\ PrimaryPost \/ RefinePost
    /\ UNCHANGED <<pc, pipeline_vars, tag_vars, main_vars>>

-----------------------------------------------------------------------------
(* Inputs *)

\* strftime('%Y-%m-%d') of the day of the run
Dates == {<<"2024", "-", "05", "-", "01">>}

\* a snapshot as get_exchange_rate_data builds it: Close 1456.20, Change -12.30
FullSnapshot(pct, close_is_number) ==
    [Close |-> IF close_is_number THEN Num(145620) ELSE NotNum,
     Change |-> Num(-1230),
     ChangePercent |-> Num(pct),
     Date |-> NotNum]

\* market_data: no dict at all, or a dict holding some of the keys
MarketInputs ==
    {[is_dict |-> FALSE, fields |-> [k \in {} |-> NotNum]]}
        \cup {[is_dict |-> TRUE,
               fields |-> [k \in K |-> FullSnapshot(pct, c)[k]]] :
                  K \in SUBSET RequiredKeys, pct \in {-84, 84}, c \in BOOLEAN}

\* news items: a plain one, one with asterisks and a body, one whose title
\* holds the phrase the client looks for, one without the key 'title'
NewsItems ==
    {[has_title |-> TRUE, title |-> NewsPlain, has_content |-> FALSE, content |-> <<>>],
     [has_title |-> TRUE, title |-> NewsStar, has_content |-> TRUE, content |-> NewsBody],
     [has_title |-> TRUE, title |-> NewsMarker, has_content |-> FALSE, content |-> <<>>],
     [has_title |-> FALSE, title |-> <<>>, has_content |-> FALSE, content |-> <<>>]}

\* news: empty, or up to MaxNews copies of one item
NewsInputs ==
    {<<>>} \cup {[i \in 1..n |-> it] : n \in 1..MaxNews, it \in NewsItems}

\* the inputs of the runs whose termination is checked: no dict, a snapshot
\* without Date, a full one, a full one whose Close is no number; no news, one
\* plain item, one item without the key 'title'
AnalyzerMarketInputs ==
    {m \in MarketInputs :
        \/ ~m.is_dict
        \/ /\ DOMAIN m.fields \in {RequiredKeys, RequiredKeys \ {"Date"}}
           /\ m.fields["ChangePercent"] = Num(-84)}
AnalyzerNewsInputs ==
    {<<>>} \cup {<<it>> : it \in {i \in NewsItems : i.title \in {NewsPlain, <<>>}}}

\* prompts a direct call of the client is given: a commentary prompt and a
\* title prompt
ClientPrompts ==
    {<<"<commentary prompt>">>, CreateTitlePrompt(StripAsterisks(TextBold))}

\* arguments a direct call of the tag extractor is given
TagTitles ==
    {Str(TagTitle), Str(StripAsterisks(TextBold)), Str(FailGeneric), NotStr}
TagContents ==
    {Str(TagContentMacro), Str(TagContentSector), Str(TextReport), Str(FailGeneric),
     Str(TagContentMacro \o <<"<nl>">> \o TagContentSector), NotStr}

-----------------------------------------------------------------------------
(* Specifications *)

PipelineIdle ==
    /\ market_data = [is_dict |-> FALSE, fields |-> [k \in {} |-> NotNum]]
    /\ news = <<>>
    /\ market_commentary = <<>>
    /\ out = NoResult
    /\ calls = [commentary |-> 0, title |-> 0]

ClientIdleInit ==
    /\ req = "none"
    /\ prompt = <<>>
    /\ max_retries = 0
    /\ attempt = 0
    /\ phase = "idle"
    /\ result = <<>>
    /\ ret = <<>>
    /\ events = <<>>

\* main is not running: the analyzer exists, so the key was set
MainIdle ==
    /\ api_key = TRUE
    /\ now = [weekday |-> 2, hour |-> 9]
    /\ steps = <<>>

TagsIdle ==
    /\ tag_title = Str(<<>>)
    /\ tag_content = Str(<<>>)
    /\ tags = <<>>

\* analyze_market_trend(market_data, news) is entered
Init ==
    /\ pc = "start"
    /\ market_data \in MarketInputs
    /\ news \in NewsInputs
    /\ today \in Dates
    /\ market_commentary = <<>>
    /\ out = NoResult
    /\ calls = [commentary |-> 0, title |-> 0]
    /\ ClientIdleInit
    /\ TagsIdle
    /\ MainIdle

Next == Validate \/ ClientStep \/ CommentaryReturned \/ TitleReturned \/ TagsReturned

Spec == Init /\ [][Next]_vars

\* ExchangeRateAnalyzer(config).analyze_market_trend(market_data, news): the
\* constructor, then the pipeline, every step of which is taken in the end
InitAnalyzer ==
    /\ pc = "construct"
    /\ api_key \in BOOLEAN
    /\ now = [weekday |-> 2, hour |-> 9]
    /\ steps = <<>>
    /\ market_data \in AnalyzerMarketInputs
    /\ news \in AnalyzerNewsInputs
    /\ today \in Dates
    /\ market_commentary = <<>>
    /\ out = NoResult
    /\ calls = [commentary |-> 0, title |-> 0]
    /\ ClientIdleInit
    /\ TagsIdle

NextAnalyzer ==
    Construct \/ Validate \/ ClientStep \/ CommentaryReturned \/ TitleReturned \/ TagsReturned

\* the step TagsReturned takes, by the position alone: the extractor always
\* returns, so the step is enabled whenever the pipeline stands at "tags"
TagsStep == pc = "tags" /\ pc' = "done"

\* the interpreter runs a call to its end: no step that can be taken is put
\* off for ever (every requests.post carries timeout=60, every sleep ends)
SpecAnalyzer ==
    /\ InitAnalyzer
    /\ [][NextAnalyzer]_vars
    /\ WF_vars(Construct \/ Validate \/ ClientStep \/ CommentaryReturned \/ TitleReturned)
    /\ WF_pc(TagsStep)

\* news lists as get_exchange_rate_news can return them: three Naver items,
\* three Yahoo items and the Google items, here copies of one item
PromptNewsInputs ==
    {[i \in 1..n |-> it] : n \in 0..MaxPromptNews, it \in NewsItems}

\* analyze_market_trend up to the point where the commentary prompt is sent
InitPrompt ==
    /\ pc = "start"
    /\ market_data \in MarketInputs
    /\ news \in PromptNewsInputs
    /\ today \in Dates
    /\ market_commentary = <<>>
    /\ out = NoResult
    /\ calls = [commentary |-> 0, title |-> 0]
    /\ ClientIdleInit
    /\ TagsIdle
    /\ MainIdle

NextPrompt == Validate

SpecPrompt == InitPrompt /\ [][NextPrompt]_vars

\* _get_deepseek_analysis(prompt, max_retries) is entered
InitClient ==
    /\ pc = "client"
    /\ today \in Dates
    /\ PipelineIdle
    /\ TagsIdle
    /\ MainIdle
    /\ req = "direct"
    /\ prompt \in ClientPrompts
    /\ max_retries \in 0..MaxRetriesArg
    /\ attempt = 0
    /\ result = <<>>
    /\ events = <<>>
    /\ IF max_retries > 0
       THEN phase = "primary" /\ ret = <<>>
       ELSE phase = "returned" /\ ret = FailNoResponse

NextClient == ClientStep

SpecClient == InitClient /\ [][NextClient]_vars

\* a call of the client runs to its end: every requests.post returns or
\* raises within its timeout, every sleep ends
SpecClientLive == InitClient /\ [][NextClient]_vars /\ WF_vars(NextClient)

\* _create_tags_from_content(title, content) runs
TagsCall ==
    /\ pc = "tags_direct"
    /\ tags' \in CreateTagsFromContent(tag_title, tag_content)
    /\ pc' = "tags_done"
    /\ UNCHANGED <<pipeline_vars, today, client_vars, tag_title, tag_content, main_vars>>

InitTags ==
    /\ pc = "tags_direct"
    /\ today \in Dates
    /\ PipelineIdle
    /\ ClientIdleInit
    /\ MainIdle
    /\ tag_title \in TagTitles
    /\ tag_content \in TagContents
    /\ tags = <<>>

NextTags == TagsCall

SpecTags == InitTags /\ [][NextTags]_vars

-----------------------------------------------------------------------------
(* main.py: one run of main *)

\* (weekday == 5 and hour >= 10) or weekday == 6 or (weekday == 0 and hour < 5)
IsWeekendRest(t) ==
    \/ (t.weekday = 5 /\ t.hour >= 10)
    \/ t.weekday = 6
    \/ (t.weekday = 0 /\ t.hour < 5)

\* what a call of a collaborator comes to: a truthy value, a falsy value, or
\* an exception
CallOutcomes == {"true", "false", "raise"}

\* one call main makes, and what came of it
Step(call, outcome) == [call |-> call, outcome |-> outcome]

\* exchange_data: {} when the collection failed, else the snapshot
ExchangeData ==
    {[is_dict |-> TRUE, fields |-> [k \in {} |-> NotNum]],
     [is_dict |-> TRUE, fields |-> FullSnapshot(-84, TRUE)]}

\* exchange_news: [] or collected items
ExchangeNews ==
    {<<>>,
     <<[has_title |-> TRUE, title |-> NewsPlain, has_content |-> TRUE, content |-> NewsBody]>>}

\* the records analyze_market_trend returns: the full one, or fallback content
AnalysisResults(md, nw) ==
    {[title |-> StripAsterisks(TextBold), commentary |-> TextReport,
      tags |-> ExtractTags(StripAsterisks(TextBold), TextReport, <<1, 2>>)],
     CreateFallbackContent(PreparedData(md, nw)),
     CreateFallbackContent(NoData)}

\* return, or the end of the function after the outer except block
MainReturn == pc' = "main_returned"

\* finally: poster.close(), then what follows the inner try statement
Finally(done) ==
    /\ steps' = Append(done, Step("close", "true"))
    /\ MainReturn

\* now = get_kst_time() and the weekend test
MainEnter ==
    /\ pc = "main"
    /\ pc' = IF IsWeekendRest(now) THEN "main_returned" ELSE "main_env"
    /\ UNCHANGED <<pipeline_vars, client_vars, tag_vars, main_vars>>

\* load_environment(), the configuration file and setup_logging
LoadEnvironment ==
    /\ pc = "main_env"
    /\ \E env \in CallOutcomes, config \in CallOutcomes :
          IF env = "true"
          THEN /\ steps' = steps \o <<Step("load_environment", env), Step("load_config", config)>>
               /\ pc' = IF config = "true" THEN "main_collect" ELSE "main_returned"
          ELSE /\ steps' = Append(steps, Step("load_environment", env))
               /\ MainReturn
    /\ UNCHANGED <<pipeline_vars, client_vars, tag_vars, api_key, now>>

\* the collector: get_exchange_rate_data, get_exchange_rate_news, the test of
\* exchange_data
Collect ==
    /\ pc = "main_collect"
    /\ \/ /\ steps' = Append(steps, Step("ExchangeRateCollector", "raise"))
          /\ MainReturn
          /\ UNCHANGED <<market_data, news>>
       \/ \E d \in ExchangeData, n \in ExchangeNews :
            /\ market_data' = d
            /\ news' = n
            /\ steps' = steps \o <<Step("get_exchange_rate_data",
                                        IF DOMAIN d.fields = {} THEN "false" ELSE "true"),
                                   Step("get_exchange_rate_news",
                                        IF n = <<>> THEN "false" ELSE "true")>>
            /\ pc' = IF DOMAIN d.fields = {} THEN "main_returned" ELSE "main_analyze"
    /\ UNCHANGED <<today, market_commentary, out, calls, client_vars, tag_vars, api_key, now>>

\* analyzer = ExchangeRateAnalyzer(config); analysis = analyzer.analyze_market_trend(...)
Analyze ==
    /\ pc = "main_analyze"
    /\ IF api_key
       THEN /\ out' \in AnalysisResults(market_data, news)
            /\ steps' = Append(steps, Step("analyze_market_trend", "true"))
            /\ pc' = "main_poster"
       ELSE /\ steps' = Append(steps, Step("ExchangeRateAnalyzer", "raise"))
            /\ MainReturn
            /\ UNCHANGED out
    /\ UNCHANGED <<market_data, news, today, market_commentary, calls, client_vars, tag_vars,
                   api_key, now>>

\* poster = NaverBlogPoster(config)
ConstructPoster ==
    /\ pc = "main_poster"
    /\ \E made \in {"true", "raise"} :
          /\ steps' = Append(steps, Step("NaverBlogPoster", made))
          /\ pc' = IF made = "true" THEN "main_driver" ELSE "main_returned"
    /\ UNCHANGED <<pipeline_vars, client_vars, tag_vars, api_key, now>>

\* a main whose early return on a failed driver setup skips poster.close()
SetupDriverNoFinally ==
    /\ pc = "main_driver"
    /\ \E ok \in CallOutcomes :
          LET done == Append(steps, Step("setup_driver", ok))
          IN  IF ok = "true"
              THEN steps' = done /\ pc' = "main_login"
              ELSE IF ok = "false"
                   THEN steps' = done /\ MainReturn
                   ELSE Finally(done)
    /\ UNCHANGED <<pipeline_vars, client_vars, tag_vars, api_key, now>>

\* poster.setup_driver(): on False the return, on an exception the inner
\* except block, both through finally
SetupDriver ==
    /\ pc = "main_driver"
    /\ \E ok \in CallOutcomes :
          LET done == Append(steps, Step("setup_driver", ok))
          IN  IF ok = "true"
              THEN steps' = done /\ pc' = "main_login"
              ELSE Finally(done)
    /\ UNCHANGED <<pipeline_vars, client_vars, tag_vars, api_key, now>>

\* poster.login()
Login ==
    /\ pc = "main_login"
    /\ \E ok \in CallOutcomes :
          LET done == Append(steps, Step("login", ok))
          IN  IF ok = "true"
              THEN steps' = done /\ pc' = "main_post"
              ELSE Finally(done)
    /\ UNCHANGED <<pipeline_vars, client_vars, tag_vars, api_key, now>>

\* title, content, tags of the analysis and poster.create_post(title, content, tags)
CreatePost ==
    /\ pc = "main_post"
    /\ \E ok \in CallOutcomes : Finally(Append(steps, Step("create_post", ok)))
    /\ UNCHANGED <<pipeline_vars, client_vars, tag_vars, api_key, now>>

\* hours of the day on both sides of 05:00 and of 10:00
Hours == {0, 4, 5, 9, 10, 23}

\* main() is entered
InitMain ==
    /\ pc = "main"
    /\ api_key \in BOOLEAN
    /\ now \in [weekday : 0..6, hour : Hours]
    /\ steps = <<>>
    /\ today \in Dates
    /\ PipelineIdle
    /\ ClientIdleInit
    /\ TagsIdle

NextMain ==
    \/ MainEnter
    \/ LoadEnvironment
    \/ Collect
    \/ Analyze
    \/ ConstructPoster
    \/ SetupDriver
    \/ Login
    \/ CreatePost

SpecMain == InitMain /\ [][NextMain]_vars

-----------------------------------------------------------------------------
(* Properties *)

\* the requests.post calls of the running client call that were first calls
PrimaryAttempts == Len(SelectSeq(events, LAMBDA e : e.call = "primary"))

\* the seconds slept by the running client call, in order
WaitSeconds ==
    LET sleeps == SelectSeq(events, LAMBDA e : e.call = "sleep")
    IN  [i \in 1..Len(sleeps) |-> sleeps[i].seconds]

\* analyze_market_trend has returned
Returned == pc = "done"

\* C1: when the commentary request comes back with one of the client's fixed
\* failure strings, analyze_market_trend returns fallback content early: no
\* title request is started, the title holds the current date and the
\* commentary is the template rendered from the snapshot, not the failure string.
C1_FailureStringGivesFallback ==
    (pc \in {"title", "tags", "done"} /\ market_commentary \in FailureStrings) =>
        /\ calls.title = 0
        /\ pc = "done"
        /\ out = CreateFallbackContent(PreparedData(market_data, news))
        /\ IsSubstring(today, out.title)
        /\ out.commentary # market_commentary

\* C2: in a commentary request, a refinement call that fails in any way (status
\* other than 200, exception, timeout) ends the call with the asterisk-stripped
\* first answer: nothing follows the failed refinement call (no backoff wait, no
\* second first call) and the value returned is the unrefined result, not a
\* failure string.
C2_RefinementFailureReturnsUnrefined ==
    \A i \in 1..Len(events) :
        (events[i].call = "refine" /\ events[i].outcome # "ok") =>
            /\ i = Len(events)
            /\ phase = "returned"
            /\ ret = result
            /\ ret \notin FailureStrings

\* C3: every result analyze_market_trend returns has a non-empty title and a
\* non-empty commentary.
C3_TitleAndCommentaryNonEmpty ==
    Returned => (Truthy(out.title) /\ Truthy(out.commentary))

\* C3, its case: the endpoint answered the commentary request with an empty
\* text or with nothing but asterisks, and the result is the fallback content
\* rendered from the snapshot
C3_Witness ==
    /\ Returned
    /\ calls.commentary = 1
    /\ calls.title = 0
    /\ market_commentary = <<>>
    /\ out.commentary # GenericCommentary

\* C4: no asterisk occurs in the title or the commentary of a result of
\* analyze_market_trend.
C4_NoAsterisks ==
    Returned => ("*" \notin Range(out.title) /\ "*" \notin Range(out.commentary))

\* C5 as amended: a client call makes at most max_retries first calls, every
\* sleep is followed by the next first call, and the sleep before attempt k
\* (counted from 1, k >= 2) lasts 2^(k-2) seconds: 1 s before the second
\* attempt, 2 s before the third.
C5_RetryBoundAndBackoff ==
    /\ PrimaryAttempts <= max_retries
    /\ \A i \in 1..Len(events) :
        events[i].call = "sleep" =>
            LET k == events[i].attempt + 2
            IN  /\ k <= max_retries
                /\ events[i].seconds = 2 ^ (k - 2)
                /\ i < Len(events) =>
                      (events[i + 1].call = "primary" /\ events[i + 1].attempt + 1 = k)

\* C5, its case: a call that slept twice and made its third attempt
C5_Witness ==
    /\ phase = "returned"
    /\ PrimaryAttempts = 3
    /\ Len(WaitSeconds) = 2

\* C5 as claimed: at most max_retries first calls, and the sleep before attempt
\* k (counted from 1) lasts 2^(k-1) seconds.
C5_BackoffBeforeAttemptK ==
    /\ PrimaryAttempts <= max_retries
    /\ \A i \in 1..Len(events) :
        events[i].call = "sleep" =>
            LET k == events[i].attempt + 2
            IN  events[i].seconds = 2 ^ (k - 1)

\* the endpoint answered every first call of the returned client call with a
\* status other than 200, and max_retries is 3
AllAttemptsRefused ==
    /\ phase = "returned"
    /\ max_retries = 3
    /\ events # <<>>
    /\ \A i \in 1..Len(events) :
          events[i].call # "sleep" =>
              (events[i].call = "primary" /\ events[i].outcome = "status")

\* C6 as amended: when every first call is answered with a status other than
\* 200 and max_retries is 3, the client returns the generic failure string
\* after exactly 3 HTTP calls, having slept 1 s and 2 s between them.
C6_ThreeRefusals ==
    AllAttemptsRefused =>
        /\ ret = FailGeneric
        /\ PrimaryAttempts = 3
        /\ Len(SelectSeq(events, LAMBDA e : e.call # "sleep")) = 3
        /\ WaitSeconds = <<1, 2>>

\* C6, its case: three refused attempts
C6_Witness == AllAttemptsRefused /\ PrimaryAttempts = 3 /\ ret = FailGeneric

\* C6 as claimed: the generic failure string after exactly 3 HTTP calls, with
\* waits of 1 s, 2 s and 4 s.
C6_ThreeRefusalsThreeWaits ==
    AllAttemptsRefused =>
        /\ ret = FailGeneric
        /\ PrimaryAttempts = 3
        /\ WaitSeconds = <<1, 2, 4>>

\* C7: the list _create_tags_from_content returns has at most 15 entries, no
\* entry twice, and is in ascending order, on the except path too.
C7_TagsBoundedDistinctSorted ==
    pc = "tags_done" =>
        /\ Len(tags) <= 15
        /\ \A i, j \in 1..Len(tags) : i # j => tags[i] # tags[j]
        /\ \A i, j \in 1..Len(tags) : i < j => Rank(tags[i]) <= Rank(tags[j])

\* C8: every result of analyze_market_trend has the three fields title,
\* commentary and tags.
C8_ThreeFields ==
    Returned => {"title", "commentary", "tags"} \subseteq DOMAIN out

\* C9: the commentary request is started at most once and the title request at
\* most once, and while the title request runs the commentary request has
\* returned: the title prompt is built from the commentary it returned.
C9_FixedOrderNoRetry ==
    /\ calls.commentary <= 1
    /\ calls.title <= 1
    /\ calls.title <= calls.commentary
    /\ req = "commentary" => (pc = "commentary" /\ calls.title = 0)
    /\ req = "title" =>
          /\ pc = "title"
          /\ Truthy(market_commentary)
          /\ prompt = CreateTitlePrompt(market_commentary)

\* C9, its case: the title request is on its third attempt after a commentary
\* request that needed a retry and a refinement call
C9_Witness ==
    /\ req = "title"
    /\ attempt = 2
    /\ calls = [commentary |-> 1, title |-> 1]

\* the fallback data the claim C10 describes: the fields of the snapshot that
\* are present
PresentData(md) ==
    [given |-> TRUE,
     keys |-> (IF "Close" \in DOMAIN md.fields THEN {"current_rate"} ELSE {})
                \cup (IF "ChangePercent" \in DOMAIN md.fields THEN {"daily_change"} ELSE {})
                \cup (IF "Change" \in DOMAIN md.fields THEN {"change_value"} ELSE {})
                \cup (IF "Date" \in DOMAIN md.fields THEN {"date"} ELSE {}),
     current_rate |-> IF "Close" \in DOMAIN md.fields THEN md.fields["Close"] ELSE NotNum,
     daily_change |-> IF "ChangePercent" \in DOMAIN md.fields
                      THEN md.fields["ChangePercent"] ELSE NotNum,
     naver_news |-> <<>>]

\* C10: a snapshot that lacks a required field makes analyze_market_trend
\* return fallback content without any client call, and that content is the
\* template filled with the fields that are present; the generic message is
\* used only when no field is present.
C10_MalformedSnapshotFallback ==
    (Returned /\ IsMalformed(market_data)) =>
        /\ calls = [commentary |-> 0, title |-> 0]
        /\ IF market_data.is_dict /\ DOMAIN market_data.fields # {}
           THEN out = CreateFallbackContent(PresentData(market_data))
           ELSE out.commentary = GenericCommentary

\* C11: when the commentary request succeeded and the title request comes back
\* with one of the client's fixed failure strings, the title handed on is the
\* fallback title built from the snapshot and not the failure string, and the
\* result carries that title, the commentary of the endpoint and the tags.
C11_TitleFailureGivesFallbackTitle ==
    /\ [][(pc = "title" /\ phase = "returned" /\ ret \in FailureStrings /\ pc' = "tags") =>
            /\ tag_title'.s = CreateFallbackTitle(PreparedData(market_data, news))
            /\ tag_title'.s # ret]_vars
    /\ [](Returned /\ calls.title = 1 =>
            /\ {"title", "commentary", "tags"} \subseteq DOMAIN out
            /\ out.title = tag_title.s
            /\ out.commentary = market_commentary)

\* C12: analyze_market_trend never raises to its caller: whatever the inputs
\* and the outcomes of the requests, a call that was entered ends by returning
\* a record with a title and a commentary; the only exception is the
\* ValueError of the constructor when the API key is not set.
C12_NeverRaises ==
    /\ [](pc = "raised" => (~api_key /\ out = NoResult /\ calls.commentary = 0))
    /\ [](~api_key => pc \in {"construct", "raised"})
    /\ [](Returned => {"title", "commentary"} \subseteq DOMAIN out)
    /\ (pc = "start" ~> Returned)

\* C12, its case: rendering the prompt raised inside the try block (a value
\* that is no number, a news item without a title) and the call returned the
\* generic fallback content
C12_Witness ==
    /\ Returned
    /\ ~IsMalformed(market_data)
    /\ ~Renders(PreparedData(market_data, news))
    /\ out = CreateFallbackContent(NoData)

\* C13: after a first call answered with 200, a title request returns at once
\* (no refinement call follows) and a commentary request always goes on to the
\* refinement call, whatever text the news items or the commentary put into
\* the prompt.
C13_RequestKindNotSniffed ==
    /\ req = "title" =>
          /\ \A i \in 1..Len(events) : events[i].call # "refine"
          /\ (events # <<>> /\ events[Len(events)].outcome = "ok") => phase = "returned"
    /\ req = "commentary" =>
          \A i \in 1..Len(events) :
              (events[i].call = "primary" /\ events[i].outcome = "ok") =>
                  IF i < Len(events)
                  THEN events[i + 1].call = "refine"
                  ELSE phase = "refine"

\* the requests.post calls of the running client call, without the sleeps
Posts == SelectSeq(events, LAMBDA e : e.call # "sleep")

\* no first call of the running client call was answered with a usable 200
EveryPrimaryFailed ==
    \A i \in 1..Len(events) :
        events[i].call # "sleep" => (events[i].call = "primary" /\ events[i].outcome # "ok")

\* C14: a call of _get_deepseek_analysis with max_retries >= 1 ends, and ends
\* by returning a string; when every first call failed the string is the
\* failure string of the kind the last attempt failed with: the generic one
\* for a status other than 200, the timeout one for a timeout, the
\* system-error one for any other exception.
C14_ReturnsFailureStringOfLastKind ==
    /\ <>(phase = "returned")
    /\ [](phase = "returned" => DOMAIN ret = 1..Len(ret))
    /\ [][phase = "returned" => phase' = "returned"]_vars
    /\ []((phase = "returned" /\ max_retries >= 1 /\ EveryPrimaryFailed) =>
            LET last == Posts[Len(Posts)]
            IN  /\ Len(Posts) = max_retries
                /\ last.outcome = "status" => ret = FailGeneric
                /\ last.outcome = "timeout" => ret = FailTimeout
                /\ last.outcome \in {"error", "badbody"} => ret = FailSystem)

\* C14, its case: two attempts refused, the third timed out
C14_Witness ==
    /\ phase = "returned"
    /\ max_retries = 3
    /\ EveryPrimaryFailed
    /\ Len(Posts) = 3
    /\ Posts[1].outcome = "status"
    /\ Posts[3].outcome = "timeout"
    /\ ret = FailTimeout

\* the news items a commentary prompt embeds: its lines that start "- "
NewsLinesIn(p) ==
    Cardinality({i \in 1..Len(p) - 2 : p[i] = "<nl>" /\ p[i + 1] = "-" /\ p[i + 2] = " "})

\* C15: the commentary prompt analyze_market_trend hands to the client embeds
\* at most 5 news items, however long the news list is.
C15_AtMostFiveNewsInPrompt ==
    (pc = "commentary" /\ req = "commentary") => NewsLinesIn(prompt) <= 5

\* the macro indicators found in the words of the arguments of the call
FoundMacroTags ==
    LET words == TitleKeywords(tag_title.s) \o ContentKeywords(tag_content.s)
        found == MacroKeywords(words)
    IN  {Join(found[i]) : i \in 1..Len(found)}

\* C16: every macro indicator that occurs in a word of the title or of the
\* content is in the returned tag list, and stands before every tag that is
\* no such indicator (base, symbol and sector tags), also when there are more
\* than 15 candidates.
C16_MacroTagsFirst ==
    (pc = "tags_done" /\ tag_title.is_str /\ tag_content.is_str) =>
        /\ FoundMacroTags \subseteq Range(tags)
        /\ \A i, j \in 1..Len(tags) :
              (tags[i] \in FoundMacroTags /\ tags[j] \notin FoundMacroTags) => i < j

\* C17: a client call makes at most one refinement call per attempt and at
\* most 2 * max_retries requests.post calls in all; every sleep stands between
\* the failed request of one attempt and the first call of the next attempt,
\* so none follows the request a return follows and none follows the last
\* attempt.
C17_PostsAndSleepsBounded ==
    /\ \A a \in 0..MaxRetriesArg :
          Len(SelectSeq(events, LAMBDA e : e.call = "refine" /\ e.attempt = a)) <= 1
    /\ Len(Posts) <= 2 * max_retries
    /\ \A i \in 1..Len(events) :
          events[i].call = "sleep" =>
              /\ i > 1
              /\ events[i - 1].call # "sleep"
              /\ events[i - 1].attempt = events[i].attempt
              /\ events[i - 1].outcome # "ok"
              /\ events[i].attempt < max_retries - 1
              /\ IF i < Len(events)
                 THEN /\ events[i + 1].call = "primary"
                      /\ events[i + 1].attempt = events[i].attempt + 1
                 ELSE phase = "primary" /\ attempt = events[i].attempt + 1
    /\ phase = "returned" => (events = <<>> \/ events[Len(events)].call # "sleep")

\* C17, its case: every attempt made its refinement call, the first two of
\* them failed by exception and were followed by a sleep, six requests in all
C17_Witness ==
    /\ phase = "returned"
    /\ max_retries = 3
    /\ Len(Posts) = 6
    /\ Len(WaitSeconds) = 2

\* the positions of the steps of main that are the call c
StepsOf(c) == {i \in 1..Len(steps) : steps[i].call = c}

\* the call c was made before position i and came out truthy
DoneBefore(c, i) == \E j \in 1..(i - 1) : steps[j] = Step(c, "true")

\* C18: in one run of main create_post is called at most once, and only
\* outside the weekend rest (Saturday from 10:00, Sunday, Monday before 05:00)
\* after the data was collected non-empty, the analysis returned, the driver
\* was set up and the login succeeded, in this order; and once the poster
\* exists, a finished run has called poster.close() exactly once.
C18_PostOnceCloseOnce ==
    /\ Cardinality(StepsOf("create_post")) <= 1
    /\ \A i \in StepsOf("create_post") :
          /\ ~(now.weekday = 5 /\ now.hour >= 10)
          /\ now.weekday # 6
          /\ ~(now.weekday = 0 /\ now.hour < 5)
          /\ DOMAIN market_data.fields # {}
          /\ out # NoResult
          /\ \E a, b, c, d \in 1..(i - 1) :
                /\ a < b /\ b < c /\ c < d
                /\ steps[a] = Step("get_exchange_rate_data", "true")
                /\ steps[b] = Step("analyze_market_trend", "true")
                /\ steps[c] = Step("setup_driver", "true")
                /\ steps[d] = Step("login", "true")
    /\ Cardinality(StepsOf("close")) <= 1
    /\ \A i \in StepsOf("close") : DoneBefore("NaverBlogPoster", i)
    /\ (pc = "main_returned" /\ DoneBefore("NaverBlogPoster", Len(steps) + 1)) =>
          Cardinality(StepsOf("close")) = 1

\* C18, its case: a run that logged in, failed to publish the post and closed
\* the poster
C18_Witness ==
    /\ pc = "main_returned"
    /\ Len(steps) >= 2
    /\ steps[Len(steps)] = Step("close", "true")
    /\ steps[Len(steps) - 1] = Step("create_post", "false")

====
